---------------------------- MODULE Spec2Model ----------------------------
(***************************************************************************)
(* A model of conda_pack/core.py: the packer (CondaEnv.pack, addfile,      *)
(* strip_prefix, rewrite_shebang), the environment loader                  *)
(* (load_environment, load_managed_package, collect_unmanaged) and the     *)
(* editable-install check (check_no_editable_packages) with the discovery   *)
(* of the site-packages directory (find_site_packages).                    *)
(*                                                                         *)
(* Byte strings and paths are sequences of atoms.  An atom is a path       *)
(* separator, a path component, a blank, a newline, the shebang marker     *)
(* "#!" or a byte that is not valid UTF-8.  Substring search, counting and *)
(* replacement work on these sequences exactly as Python's work on bytes.  *)
(***************************************************************************)
EXTENDS Integers, Sequences, FiniteSets, TLC

VARIABLES
    pc,               \* position of the modelled call
    prefix,           \* CondaEnv.prefix
    files,            \* CondaEnv.files / the list load_environment builds
    output,           \* the output path of pack
    record,           \* the record path of pack, or NoPath
    fs,               \* the filesystem at the output, record and temp paths
    existed,          \* the paths that held a file when pack was called
    idx,              \* number of records the loop of pack has consumed
    arc,              \* the archive sink: the add / add_bytes calls it received
    prefix_list,      \* the relocation manifest pack accumulates
    manifest_written, \* every manifest that was written out, in order
    meta,             \* conda-meta: the package records of the environment
    disk,             \* the paths collect_unmanaged finds under the prefix
    kwargs,           \* load_environment: unmanaged, on_missing_cache
    pth,              \* site-packages/*.pth: the lines of the .pth files
    editable,         \* check_no_editable_packages: the offending lines
    pythons,          \* find_site_packages: the records named python
    site_result       \* find_site_packages: the value it returned

vars == <<pc, prefix, files, output, record, fs, existed, idx, arc,
          prefix_list, manifest_written, meta, disk, kwargs, pth, editable,
          pythons, site_result>>

-----------------------------------------------------------------------------
(* Bounds of the model.                                                    *)

MaxFiles == 2     \* records in CondaEnv.files
MaxPkgs  == 2     \* package records in conda-meta
MaxLines == 2     \* lines over all .pth files

-----------------------------------------------------------------------------
(* Byte strings.                                                           *)

BAD == "\\xff"    \* a byte that is no valid UTF-8
NL  == "\n"
SP  == " "

\* data[i:].startswith(sub)
StartsWithAt(s, sub, i) ==
    /\ i + Len(sub) - 1 <= Len(s)
    /\ \A k \in 1..Len(sub) : s[i + k - 1] = sub[k]

\* bytes.startswith / str.startswith
StartsWith(s, sub) == StartsWithAt(s, sub, 1)

\* `sub in s`
Contains(s, sub) == \E i \in 1..(Len(s) + 1) : StartsWithAt(s, sub, i)

\* bytes.count: the number of non-overlapping occurrences, leftmost first
RECURSIVE CountFrom(_, _, _)
CountFrom(s, sub, i) ==
    IF i + Len(sub) - 1 > Len(s) THEN 0
    ELSE IF StartsWithAt(s, sub, i)
         THEN 1 + CountFrom(s, sub, i + Len(sub))
         ELSE CountFrom(s, sub, i + 1)

Count(s, sub) == CountFrom(s, sub, 1)

\* str.replace / bytes.replace: every non-overlapping occurrence, leftmost first
RECURSIVE ReplaceFrom(_, _, _, _)
ReplaceFrom(s, old, new, i) ==
    IF i > Len(s) THEN <<>>
    ELSE IF StartsWithAt(s, old, i)
         THEN new \o ReplaceFrom(s, old, new, i + Len(old))
         ELSE <<s[i]>> \o ReplaceFrom(s, old, new, i + 1)

Replace(s, old, new) == ReplaceFrom(s, old, new, 1)

\* bytes.decode('utf-8') succeeds
Decodable(data) == \A i \in 1..Len(data) : data[i] # BAD

\* s[i:] and s[i:j] (1-based, j exclusive)
From(s, i) == SubSeq(s, i, Len(s))
Slice(s, i, j) == SubSeq(s, i, j - 1)

\* the least index >= i of s that satisfies no blank, Len(s)+1 if none
RECURSIVE SkipBlanks(_, _)
SkipBlanks(s, i) ==
    IF i <= Len(s) /\ s[i] = SP THEN SkipBlanks(s, i + 1) ELSE i

Whitespace == {SP, NL, "\t", "\r"}

\* the least index >= i of s that holds whitespace, Len(s)+1 if none
RECURSIVE SkipWord(_, _)
SkipWord(s, i) ==
    IF i <= Len(s) /\ s[i] \notin Whitespace THEN SkipWord(s, i + 1) ELSE i

\* the least index >= i of s that holds a newline, Len(s)+1 if none
RECURSIVE LineEnd(_, _)
LineEnd(s, i) ==
    IF i <= Len(s) /\ s[i] # NL THEN LineEnd(s, i + 1) ELSE i

\* the index after the last "/" of s, 1 if none: s.split('/')[-1] is s[that:]
RECURSIVE LastPart(_, _)
LastPart(s, i) ==
    IF i = 0 THEN 1 ELSE IF s[i] = "/" THEN i + 1 ELSE LastPart(s, i - 1)

-----------------------------------------------------------------------------
(* Module constants.                                                       *)

PREFIX_PLACEHOLDER == <<"/", "opt", "/", "anaconda1anaconda2anaconda3">>

BIN_DIR == <<"bin">>

\* '#!/usr/bin/env ' of rewrite_shebang
ENV_SHEBANG == <<"#!", "/", "usr", "/", "bin", "/", "env", SP>>

\* Python's None, where a byte string or a path is expected
None == <<"None">>

-----------------------------------------------------------------------------
(* prefixes.SHEBANG_REGEX, matched by re.match at the start of data: the   *)
(* marker, optional blanks, the executable (a run without whitespace),     *)
(* the options (the rest of the line), the newline.                        *)

SHEBANG_REGEX(data) ==
    LET e0 == SkipBlanks(data, 2)
        e1 == SkipWord(data, e0)
        e2 == LineEnd(data, e1)
    IN  IF /\ Len(data) >= 1
           /\ data[1] = "#!"
           /\ e1 > e0
           /\ e2 <= Len(data)
        THEN [matched |-> TRUE,
              shebang |-> Slice(data, 1, e2),
              executable |-> Slice(data, e0, e1),
              options |-> Slice(data, e1, e2)]
        ELSE [matched |-> FALSE, shebang |-> <<>>, executable |-> <<>>,
              options |-> <<>>]

-----------------------------------------------------------------------------
(* strip_prefix(data, prefix, placeholder=PREFIX_PLACEHOLDER)              *)

\* str.replace(old, new, 1): the first occurrence only
RECURSIVE ReplaceFirstFrom(_, _, _, _)
ReplaceFirstFrom(s, old, new, i) ==
    IF i > Len(s) THEN <<>>
    ELSE IF StartsWithAt(s, old, i)
         THEN new \o From(s, i + Len(old))
         ELSE <<s[i]>> \o ReplaceFirstFrom(s, old, new, i + 1)

\* strip_prefix with only the first occurrence replaced
strip_prefix_first(data, pfx) ==
    IF Decodable(data) /\ Contains(data, pfx)
    THEN [data |-> ReplaceFirstFrom(data, pfx, PREFIX_PLACEHOLDER, 1),
          placeholder |-> PREFIX_PLACEHOLDER]
    ELSE [data |-> data, placeholder |-> None]

strip_prefix(data, pfx) ==
    IF Decodable(data)
    THEN IF Contains(data, pfx)
         THEN [data |-> Replace(data, pfx, PREFIX_PLACEHOLDER),
               placeholder |-> PREFIX_PLACEHOLDER]
         ELSE [data |-> data, placeholder |-> None]
    ELSE [data |-> data, placeholder |-> None]

\* rewrite_shebang with the options of the shebang line dropped
rewrite_shebang_noopts(data, target, pfx) ==
    LET m == SHEBANG_REGEX(data)
    IN  IF m.matched /\ Count(data, pfx) <= 1
        THEN IF StartsWith(m.executable, pfx)
             THEN [data |-> Replace(data, m.shebang,
                                    ENV_SHEBANG \o
                                    From(m.executable,
                                         LastPart(m.executable, Len(m.executable)))),
                   fixed |-> TRUE, raised |-> FALSE]
             ELSE [data |-> data, fixed |-> TRUE, raised |-> FALSE]
        ELSE [data |-> data, fixed |-> FALSE, raised |-> FALSE]

\* rewrite_shebang without the check for a second occurrence of the prefix
rewrite_shebang_nocount(data, target, pfx) ==
    LET m == SHEBANG_REGEX(data)
    IN  IF m.matched
        THEN IF StartsWith(m.executable, pfx)
             THEN [data |-> Replace(data, m.shebang,
                                    ENV_SHEBANG \o
                                    From(m.executable,
                                         LastPart(m.executable, Len(m.executable)))
                                    \o m.options),
                   fixed |-> TRUE, raised |-> FALSE]
             ELSE [data |-> data, fixed |-> TRUE, raised |-> FALSE]
        ELSE [data |-> data, fixed |-> FALSE, raised |-> FALSE]

(* rewrite_shebang(data, target, prefix).  raised: executable or options   *)
(* do not decode as UTF-8.                                                 *)

rewrite_shebang(data, target, pfx) ==
    LET m == SHEBANG_REGEX(data)
    IN  IF m.matched
        THEN IF Count(data, pfx) > 1
             THEN [data |-> data, fixed |-> FALSE, raised |-> FALSE]
             ELSE IF StartsWith(m.executable, pfx)
                  THEN IF Decodable(m.executable) /\ Decodable(m.options)
                       THEN LET executable_name ==
                                    From(m.executable,
                                         LastPart(m.executable, Len(m.executable)))
                                new_shebang ==
                                    ENV_SHEBANG \o executable_name \o m.options
                            IN  [data |-> Replace(data, m.shebang, new_shebang),
                                 fixed |-> TRUE, raised |-> FALSE]
                       ELSE [data |-> data, fixed |-> FALSE, raised |-> TRUE]
                  ELSE [data |-> data, fixed |-> TRUE, raised |-> FALSE]
        ELSE [data |-> data, fixed |-> FALSE, raised |-> FALSE]

-----------------------------------------------------------------------------
(* File records.  source stands for the path and for what the filesystem   *)
(* holds there: kind is "file", "link" or "dir", data the bytes open()     *)
(* reads.  file_mode "none" is Python's None.                              *)

File(source, target, is_conda, file_mode, prefix_placeholder) ==
    [source |-> source, target |-> target, is_conda |-> is_conda,
     file_mode |-> file_mode, prefix_placeholder |-> prefix_placeholder]

\* os.path.isdir(source) or os.path.islink(source)
IsDirOrLink(source) == source.kind \in {"dir", "link"}

\* archive.add(source, target): the sink streams the entry from the filesystem
ArcAdd(archive, source, target) ==
    Append(archive, [op |-> "add", target |-> target, kind |-> source.kind,
                     data |-> source.data])

\* archive.add_bytes(source, data, target)
ArcAddBytes(archive, source, data, target) ==
    Append(archive, [op |-> "add_bytes", target |-> target, kind |-> "file",
                     data |-> data])

Row(target, placeholder, mode) ==
    [target |-> target, placeholder |-> placeholder, mode |-> mode]

\* prefix_list.insert(0, row) in place of prefix_list.append(row)
PrependRow(rows, row) == <<row>> \o rows

\* prefix_list.append(row)
AppendRow(rows, row) == Append(rows, row)

AddResult(archive, rows, raised) ==
    [archive |-> archive, prefix_list |-> rows, raised |-> raised]

(* addfile(prefix, archive, prefix_list, file)                             *)

addfile(pfx, archive, rows, file) ==
    IF file.file_mode = "none"
    THEN AddResult(ArcAdd(archive, file.source, file.target), rows, FALSE)
    ELSE IF IsDirOrLink(file.source)
    THEN AddResult(ArcAdd(archive, file.source, file.target), rows, FALSE)
    ELSE IF file.file_mode = "unknown"
    THEN LET s == strip_prefix(file.source.data, pfx)
         IN  IF s.placeholder # None
             THEN LET r == IF StartsWith(file.target, BIN_DIR)
                           THEN rewrite_shebang(s.data, file.target, s.placeholder)
                           ELSE [data |-> s.data, fixed |-> FALSE, raised |-> FALSE]
                      rows2 == IF ~r.fixed
                               THEN AppendRow(rows, Row(file.target, s.placeholder, "text"))
                               ELSE rows
                  IN  IF r.raised
                      THEN AddResult(archive, rows, TRUE)
                      ELSE AddResult(ArcAddBytes(archive, file.source, r.data,
                                                 file.target), rows2, FALSE)
             ELSE AddResult(ArcAddBytes(archive, file.source, s.data, file.target),
                            rows, FALSE)
    ELSE IF file.file_mode = "text"
    THEN IF StartsWith(file.target, BIN_DIR)
         THEN LET r == rewrite_shebang(file.source.data, file.target,
                                       file.prefix_placeholder)
                  arc2 == ArcAddBytes(archive, file.source, r.data, file.target)
              IN  IF r.raised
                  THEN AddResult(archive, rows, TRUE)
                  ELSE AddResult(arc2,
                                 IF ~r.fixed
                                 THEN AppendRow(rows, Row(file.target,
                                                       file.prefix_placeholder, "text"))
                                 ELSE rows,
                                 FALSE)
         ELSE AddResult(ArcAdd(archive, file.source, file.target),
                        AppendRow(rows, Row(file.target, file.prefix_placeholder,
                                         file.file_mode)),
                        FALSE)
    ELSE IF file.file_mode = "binary"
    THEN AddResult(ArcAdd(archive, file.source, file.target),
                   AppendRow(rows, Row(file.target, file.prefix_placeholder,
                                    file.file_mode)),
                   FALSE)
    ELSE AddResult(archive, rows, TRUE)

-----------------------------------------------------------------------------
(* Inputs: installation prefixes, declared placeholders, file contents.    *)

Idle == <<"idle">>

\* /src/env and /home/me/envs/py; /opt and /usr/bin, which occur inside PREFIX_PLACEHOLDER and
\* inside ENV_SHEBANG; /a/opt, whose end is the beginning of the placeholder
Prefixes ==
    { <<"/", "src", "/", "env">>, <<"/", "home", "/", "me", "/", "envs", "/", "py">>,
      <<"/", "opt">>, <<"/", "usr", "/", "bin">>, <<"/", "a", "/", "opt">> }

\* the prefix_placeholder a package declares: the token, or its build prefix
Placeholders == { PREFIX_PLACEHOLDER, <<"/", "b", "/", "bld">> }

\* first lines, x the path embedded in the file
Heads(x) ==
    { <<>>,
      <<"#!">> \o x \o <<"/", "bin", "/", "python", NL>>,
      <<"#!", SP>> \o x \o <<"/", "bin", "/", "python", SP, "-E", NL>>,
      <<"#!", "/", "bin", "/", "sh", NL>>,
      <<"#!">> \o x \o <<"-dev", "/", "bin", "/", "python", NL>> }

\* what follows the first line
Bodies(x) ==
    { <<>>,
      <<"print", NL>>,
      <<"print", SP>> \o x \o <<NL>>,
      <<"print", SP, BAD, NL>>,
      <<"print", SP>> \o PREFIX_PLACEHOLDER \o <<NL>>,
      <<"/", "a">> \o x \o <<NL>>,
      <<"print", SP>> \o x \o <<"/", "share", SP>> \o x \o <<NL>> }

Contents(x) == { h \o b : h \in Heads(x), b \in Bodies(x) }

Targets == { <<"bin", "/", "tool">>, <<"lib", "/", "libx.so">> }

Kinds == {"file", "link", "dir"}

Source(kind, data) == [kind |-> kind, data |-> data]

\* the records an environment at pfx can hold; a record of mode text or
\* binary declares its placeholder, and its bytes embed that placeholder
Records(pfx) ==
    { File(Source(k, d), t, TRUE, m, None) :
        k \in Kinds, d \in Contents(pfx), t \in Targets,
        m \in {"none", "unknown", "bogus"} }
    \cup
    UNION { { File(Source(k, d), t, TRUE, m, ph) :
                k \in Kinds, d \in Contents(ph), t \in Targets,
                m \in {"text", "binary"} } : ph \in Placeholders }

-----------------------------------------------------------------------------
(* SpecAdd: addfile applied to one record, archive and manifest empty.     *)

packIdle ==
    /\ output = Idle /\ record = Idle /\ fs = Idle /\ existed = Idle
    /\ idx = 0 /\ manifest_written = <<>>

loadIdle == meta = Idle /\ disk = Idle /\ kwargs = Idle

pthIdle == pth = Idle /\ editable = Idle

siteIdle == pythons = Idle /\ site_result = Idle

InitAdd ==
    /\ pc = "add"
    /\ prefix \in Prefixes
    /\ files \in { <<f>> : f \in Records(prefix) }
    /\ arc = <<>>
    /\ prefix_list = <<>>
    /\ packIdle /\ loadIdle /\ pthIdle /\ siteIdle

ApplyAddfile ==
    /\ pc = "add"
    /\ LET r == addfile(prefix, arc, prefix_list, files[1])
       IN  /\ arc' = r.archive
           /\ prefix_list' = r.prefix_list
           /\ pc' = IF r.raised THEN "add_raised" ELSE "added"
    /\ UNCHANGED <<pythons, site_result, prefix, files, output, record, fs, existed, idx,
                   manifest_written, meta, disk, kwargs, pth, editable>>

NextAdd == ApplyAddfile

SpecAdd == InitAdd /\ [][NextAdd]_vars

-----------------------------------------------------------------------------
(* Claims about addfile on one record (SpecAdd).                           *)

AddDone == pc \in {"added", "add_raised"}

\* the path a record's bytes embed: the declared placeholder of a text
\* record, the installation prefix otherwise
Embedded(f) == IF f.file_mode = "text" THEN f.prefix_placeholder ELSE prefix

\* the first line is a shebang whose executable lies inside x
ShebangInside(data, x) ==
    LET m == SHEBANG_REGEX(data)
    IN  m.matched /\ StartsWith(m.executable, x \o <<"/">>)

\* the last path component of an executable that holds a "/"
Basename(exe) ==
    LET k == CHOOSE k \in 1..Len(exe) :
                 exe[k] = "/" /\ \A j \in (k + 1)..Len(exe) : exe[j] # "/"
    IN  SubSeq(exe, k + 1, Len(exe))

\* '#!/usr/bin/env <basename><options>' and the newline
EnvLine(data) ==
    LET m == SHEBANG_REGEX(data)
    IN  ENV_SHEBANG \o Basename(m.executable) \o m.options \o <<NL>>

C4Case(f) ==
    /\ f.file_mode \in {"unknown", "text"}
    /\ StartsWith(f.target, BIN_DIR)
    /\ ShebangInside(f.source.data, Embedded(f))
    /\ Count(f.source.data, Embedded(f)) = 1

C4Rewritten(f) ==
    /\ pc = "added"
    /\ Len(arc) = 1
    /\ StartsWith(arc[1].data, EnvLine(f.source.data))
    /\ prefix_list = <<>>

\* C4 as stated: every unknown or text record under bin whose shebang
\* executable lies inside the prefix, the prefix occurring once, is archived
\* with the line '#!/usr/bin/env <basename><options>' and gets no manifest row.
C4_AsStated == (AddDone /\ C4Case(files[1])) => C4Rewritten(files[1])

C4Regular(f) ==
    /\ f.source.kind = "file"
    /\ Decodable(f.source.data)
    /\ f.file_mode = "unknown" =>
           Count(Replace(f.source.data, prefix, PREFIX_PLACEHOLDER),
                 PREFIX_PLACEHOLDER) = 1

\* C4, amended: the same for a record whose source is a regular file with
\* UTF-8 content in which (unknown mode) the placeholder token occurs nowhere
\* but where it replaces the prefix; for a text record the prefix is the
\* declared prefix_placeholder.
C4_ShebangRewritten ==
    (AddDone /\ C4Case(files[1]) /\ C4Regular(files[1])) => C4Rewritten(files[1])

C4_Witness ==
    /\ pc = "added"
    /\ C4Case(files[1]) /\ C4Regular(files[1])
    /\ files[1].file_mode = "unknown"
    /\ SHEBANG_REGEX(files[1].source.data).options = <<SP, "-E">>
    /\ StartsWith(arc[1].data, ENV_SHEBANG \o <<"python", SP, "-E", NL>>)

C5Case(f) ==
    /\ f.file_mode = "unknown"
    /\ f.source.kind = "file"
    /\ StartsWith(f.target, BIN_DIR)
    /\ ShebangInside(f.source.data, prefix)
    /\ Count(f.source.data, prefix) = 2
    /\ Count(From(f.source.data, LineEnd(f.source.data, 1)), prefix) = 1

\* C5 as stated: an unknown regular file under bin with a shebang inside the
\* prefix and one more occurrence of the prefix in its body is archived with
\* the shebang rewritten to '#!/usr/bin/env <basename>', the body occurrence
\* replaced by the placeholder, and gets no manifest row.
C5_AsStated ==
    (AddDone /\ C5Case(files[1])) =>
        /\ pc = "added"
        /\ StartsWith(arc[1].data,
                      ENV_SHEBANG \o
                      Basename(SHEBANG_REGEX(files[1].source.data).executable))
        /\ Contains(arc[1].data, PREFIX_PLACEHOLDER)
        /\ prefix_list = <<>>

\* C5, amended: such a file, its content UTF-8, is archived with both
\* occurrences of the prefix replaced by the placeholder token and the
\* shebang line not rewritten to /usr/bin/env, and gets the one manifest row
\* (target, placeholder token, 'text').
C5_TwoOccurrences ==
    (AddDone /\ C5Case(files[1]) /\ Decodable(files[1].source.data)) =>
        /\ pc = "added"
        /\ Len(arc) = 1
        /\ arc[1].data =
               Replace(files[1].source.data, prefix, PREFIX_PLACEHOLDER)
        /\ Count(arc[1].data, PREFIX_PLACEHOLDER) >= 2
        /\ ~StartsWith(arc[1].data, ENV_SHEBANG)
        /\ prefix_list =
               <<Row(files[1].target, PREFIX_PLACEHOLDER, "text")>>

C5_Witness ==
    /\ pc = "added"
    /\ C5Case(files[1])
    /\ prefix = <<"/", "src", "/", "env">>
    /\ files[1].source.data =
           <<"#!">> \o prefix \o <<"/", "bin", "/", "python", NL, "print", SP>>
           \o prefix \o <<NL>>
    /\ Len(prefix_list) = 1

C6Case(f) ==
    /\ f.file_mode = "unknown"
    /\ f.source.kind = "file"
    /\ Decodable(f.source.data)

\* C6 as stated: the bytes archived for an unknown regular file with UTF-8
\* content hold no occurrence of the installation prefix, whatever the prefix.
C6_AsStated ==
    (AddDone /\ C6Case(files[1])) =>
        (pc = "added" /\ ~Contains(arc[1].data, prefix))

\* a and b can lie over one another: one holds the other, or an end of one
\* is a beginning of the other
Overlaps(a, b) ==
    \E d \in (1 - Len(a))..(Len(b) - 1) :
        \A k \in 1..Len(a) : (k + d) \in 1..Len(b) => a[k] = b[k + d]

\* C6, amended: they hold no occurrence of the prefix when the prefix
\* overlaps neither the placeholder token nor '#!/usr/bin/env '.
C6_NoPrefixLeft ==
    (/\ AddDone
     /\ C6Case(files[1])
     /\ ~Overlaps(prefix, PREFIX_PLACEHOLDER)
     /\ ~Overlaps(prefix, ENV_SHEBANG)) =>
        (pc = "added" /\ Len(arc) = 1 /\ ~Contains(arc[1].data, prefix))

C6_Witness ==
    /\ pc = "added"
    /\ C6Case(files[1])
    /\ ~Overlaps(prefix, PREFIX_PLACEHOLDER)
    /\ ~Overlaps(prefix, ENV_SHEBANG)
    /\ Count(files[1].source.data, prefix) = 2
    /\ ~StartsWith(files[1].target, BIN_DIR)
    /\ Count(arc[1].data, PREFIX_PLACEHOLDER) = 2

-----------------------------------------------------------------------------
(* Spec: one call of CondaEnv.pack(output, record=record).                 *)

NoPath == "None"            \* record=None
OutputPath == "env.zip"
RecordPaths == {NoPath, "env.zip", "env.txt"}
TempPath == "tmp"           \* the fresh name tempfile.mkstemp returns
Paths == {"env.zip", "env.txt", TempPath}

PackPrefix == <<"/", "src", "/", "env">>

Bld == <<"/", "b", "/", "bld">>

\* the records of the packed environment: one for each path through addfile
PackRecords ==
    { File(Source("file", <<"data", NL>>), <<"lib", "/", "mod.py">>, TRUE,
           "none", None),
      File(Source("file", <<"elf", BAD>> \o Bld), <<"lib", "/", "libx.so">>,
           TRUE, "binary", Bld),
      File(Source("link", <<"elf", BAD>> \o Bld), <<"lib", "/", "liby.so">>,
           TRUE, "binary", Bld),
      File(Source("file", <<"#!">> \o Bld \o <<"/", "bin", "/", "python", NL>>),
           <<"bin", "/", "tool">>, TRUE, "text", Bld),
      File(Source("file", <<"#!", "/", "bin", "/", "sh", NL, "cd", SP>> \o Bld
                          \o <<NL>>),
           <<"bin", "/", "run">>, TRUE, "text", Bld),
      File(Source("file", <<"home", SP>> \o Bld \o <<NL>>),
           <<"etc", "/", "conf">>, TRUE, "text", Bld),
      File(Source("file", <<"#!">> \o PackPrefix
                          \o <<"/", "bin", "/", "python", NL, "print", SP>>
                          \o PackPrefix \o <<NL>>),
           <<"bin", "/", "pip">>, FALSE, "unknown", None),
      File(Source("file", <<"print", NL>>), <<"share", "/", "doc">>, FALSE,
           "unknown", None),
      File(Source("file", <<"data", NL>>), <<"lib", "/", "odd">>, TRUE,
           "bogus", None) }

RECURSIVE SeqsUpTo(_, _)
SeqsUpTo(S, n) ==
    IF n = 0 THEN { <<>> }
    ELSE LET shorter == SeqsUpTo(S, n - 1)
         IN  shorter \cup { Append(q, x) : q \in shorter, x \in S }

Init ==
    /\ pc = "call"
    /\ prefix = PackPrefix
    /\ files \in SeqsUpTo(PackRecords, MaxFiles)
    /\ output = OutputPath
    /\ record \in RecordPaths
    /\ fs \in { f \in [Paths -> {"absent", "old"}] : f[TempPath] = "absent" }
    /\ existed = { p \in Paths : fs[p] # "absent" }
    /\ idx = 0
    /\ arc = <<>>
    /\ prefix_list = <<>>
    /\ manifest_written = <<>>
    /\ loadIdle /\ pthIdle /\ siteIdle

\* os.path.exists(path)
Exists(path) == fs[path] # "absent"

\* lines 192-198: refuse an existing output or record path
CheckPaths ==
    /\ pc = "call"
    /\ pc' = IF Exists(output) THEN "refused"
             ELSE IF record # NoPath /\ Exists(record) THEN "refused"
             ELSE "mkstemp"
    /\ UNCHANGED <<pythons, site_result, prefix, files, output, record, fs, existed, idx, arc,
                   prefix_list, manifest_written, meta, disk, kwargs, pth, editable>>

\* line 206: fd, temp_path = tempfile.mkstemp()
Mkstemp ==
    /\ pc = "mkstemp"
    /\ fs' = [fs EXCEPT ![TempPath] = "temp"]
    /\ pc' = "open"
    /\ UNCHANGED <<pythons, site_result, prefix, files, output, record, existed, idx, arc,
                   prefix_list, manifest_written, meta, disk, kwargs, pth, editable>>

\* lines 209-212: open the temp file and the archive on it; either may raise
OpenArchive ==
    /\ pc = "open"
    /\ \E ok \in BOOLEAN : pc' = IF ok THEN "loop" ELSE "except"
    /\ UNCHANGED <<pythons, site_result, prefix, files, output, record, fs, existed, idx, arc,
                   prefix_list, manifest_written, meta, disk, kwargs, pth, editable>>

\* lines 213-214: addfile on the next record; reading or writing may raise
AddFile ==
    /\ pc = "loop"
    /\ idx < Len(files)
    /\ \E ok \in BOOLEAN :
         LET r == addfile(prefix, arc, prefix_list, files[idx + 1])
         IN  IF ok /\ ~r.raised
             THEN /\ arc' = r.archive
                  /\ prefix_list' = r.prefix_list
                  /\ idx' = idx + 1
                  /\ pc' = "loop"
             ELSE /\ pc' = "except"
                  /\ UNCHANGED <<pythons, site_result, arc, prefix_list, idx>>
    /\ UNCHANGED <<pythons, site_result, prefix, files, output, record, fs, existed,
                   manifest_written, meta, disk, kwargs, pth, editable>>

\* lines 209-212, leaving the with blocks: the archive and the temp file are
\* closed.  The sink was built without prefix_list and addfile hands it no
\* row, so closing it writes nothing of the manifest.
CloseArchive ==
    /\ pc = "loop"
    /\ idx = Len(files)
    /\ \E ok \in BOOLEAN : pc' = IF ok THEN "move" ELSE "except"
    /\ UNCHANGED <<pythons, site_result, prefix, files, output, record, fs, existed, idx, arc,
                   prefix_list, manifest_written, meta, disk, kwargs, pth, editable>>

\* lines 216-219: except Exception: os.remove(temp_path); raise
Except ==
    /\ pc = "except"
    /\ fs' = [fs EXCEPT ![TempPath] = "absent"]
    /\ pc' = "raised"
    /\ UNCHANGED <<pythons, site_result, prefix, files, output, record, existed, idx, arc,
                   prefix_list, manifest_written, meta, disk, kwargs, pth, editable>>

\* lines 220-222: else: shutil.move(temp_path, output).  It renames, or
\* copies and unlinks; it may raise before writing or while copying, and
\* the else clause of the try statement has no handler.
Move ==
    /\ pc = "move"
    /\ \E outcome \in {"moved", "failed", "failed_copying"} :
         /\ fs' = IF outcome = "moved"
                  THEN [fs EXCEPT ![TempPath] = "absent", ![output] = "archive"]
                  ELSE IF outcome = "failed_copying"
                  THEN [fs EXCEPT ![output] = "partial"]
                  ELSE fs
         /\ pc' = IF outcome # "moved" THEN "raised"
                  ELSE IF record # NoPath THEN "record" ELSE "done"
    /\ UNCHANGED <<pythons, site_result, prefix, files, output, record, existed, idx, arc,
                   prefix_list, manifest_written, meta, disk, kwargs, pth, editable>>

\* lines 224-227: open(record, 'w') creates or truncates the record path and
\* the lines of arc.records are written; prefix_list is not.
WriteRecord ==
    /\ pc = "record"
    /\ \E outcome \in {"written", "failed_open", "failed_writing"} :
         /\ fs' = IF outcome = "written"
                  THEN [fs EXCEPT ![record] = "record"]
                  ELSE IF outcome = "failed_writing"
                  THEN [fs EXCEPT ![record] = "partial"]
                  ELSE fs
         /\ pc' = IF outcome = "written" THEN "done" ELSE "raised"
    /\ UNCHANGED <<pythons, site_result, prefix, files, output, record, existed, idx, arc,
                   prefix_list, manifest_written, meta, disk, kwargs, pth, editable>>

Next ==
    \/ CheckPaths
    \/ Mkstemp
    \/ OpenArchive
    \/ AddFile
    \/ CloseArchive
    \/ Except
    \/ Move
    \/ WriteRecord

Spec == Init /\ [][Next]_vars

-----------------------------------------------------------------------------
(* Claims about pack (Spec).                                               *)

\* C1 as stated: when pack raises after the temp file was created, the temp
\* file is gone and no file is at the output path.
C1_AsStated ==
    pc = "raised" => (fs[TempPath] = "absent" /\ fs[output] = "absent")

\* C2 as stated: no step overwrites or truncates a file that is at the
\* output or the record path, and a call that finds a file at either path
\* is refused before the temp file is made or an entry is added.
C2_AsStated ==
    [][ /\ \A p \in {output, record} \ {NoPath} :
              fs[p] # "absent" => fs'[p] = fs[p]
        /\ ({output, record} \cap existed # {}) =>
              (pc' = "refused" /\ fs' = fs /\ arc' = <<>>) ]_vars

\* addfile has been applied to every record and the archive is closed
PackedAll == pc \in {"move", "record", "done"}

HasRow(row) == \E k \in 1..Len(prefix_list) : prefix_list[k] = row

\* the bytes archived for record i were rewritten and hold the declared
\* placeholder no more
Resolved(i) ==
    /\ arc[i].data # files[i].source.data
    /\ ~Contains(arc[i].data, files[i].prefix_placeholder)

\* C3 as stated: once addfile has run on every record, every manifest row
\* names an archived target, every binary record has its binary row and every
\* text record not fully resolved by a shebang rewrite has its text row,
\* whatever the kind of its source.
C3_AsStated ==
    PackedAll =>
        /\ Len(arc) = Len(files)
        /\ \A k \in 1..Len(prefix_list) :
               \E j \in 1..Len(arc) : arc[j].target = prefix_list[k].target
        /\ \A i \in 1..Len(files) :
               files[i].file_mode = "binary" =>
                   HasRow(Row(files[i].target, files[i].prefix_placeholder,
                              "binary"))
        /\ \A i \in 1..Len(files) :
               (files[i].file_mode = "text" /\ ~Resolved(i)) =>
                   HasRow(Row(files[i].target, files[i].prefix_placeholder,
                              "text"))

IsPrefixOf(a, b) == Len(a) <= Len(b) /\ SubSeq(b, 1, Len(a)) = a

\* C8 as stated: the manifest only grows during a run, and a successful run
\* has written the accumulated manifest out exactly once.
C8_AsStated ==
    [][ /\ IsPrefixOf(prefix_list, prefix_list')
        /\ pc' = "done" => manifest_written' = <<prefix_list'>> ]_vars

TargetsOf(q) == [i \in 1..Len(q) |-> q[i].target]

\* a is b with some elements left out
RECURSIVE IsSubseqFrom(_, _, _, _)
IsSubseqFrom(a, b, i, j) ==
    IF i > Len(a) THEN TRUE
    ELSE IF j > Len(b) THEN FALSE
    ELSE IF a[i] = b[j] THEN IsSubseqFrom(a, b, i + 1, j + 1)
    ELSE IsSubseqFrom(a, b, i, j + 1)

IsSubseq(a, b) == IsSubseqFrom(a, b, 1, 1)

\* C9: the targets handed to the sink are the targets of the records
\* consumed so far, one entry per record in the same order, the manifest rows
\* follow that order, and a successful run has consumed every record.
C9_ArchiveOrder ==
    /\ pc \in {"loop", "move", "record", "done"} =>
           /\ TargetsOf(arc) = TargetsOf(SubSeq(files, 1, idx))
           /\ IsSubseq(TargetsOf(prefix_list), TargetsOf(arc))
    /\ PackedAll => idx = Len(files)

C9_Witness ==
    /\ pc = "done"
    /\ Len(files) >= 2
    /\ Len(arc) = Len(files)
    /\ Len(prefix_list) = 2
    /\ prefix_list[1].target # prefix_list[2].target
    /\ prefix_list[1].target = files[1].target

-----------------------------------------------------------------------------
(* SpecLoad: one call of load_environment(prefix, unmanaged,               *)
(* on_missing_cache).  The source of a record is here its path only.       *)

\* what find_site_packages returned
SitePackages == <<"lib", "/", "python3.5", "/", "site-packages">>

\* os.path.join(a, b), b relative
Join(a, b) == a \o <<"/">> \o b

\* _scripts, as File(*s): the activate and deactivate scripts of the package
Scripts ==
    << File(<<"conda_pack", "/", "scripts", "/", "posix", "/", "activate">>,
            Join(BIN_DIR, <<"activate">>), TRUE, "none", None),
       File(<<"conda_pack", "/", "scripts", "/", "posix", "/", "deactivate">>,
            Join(BIN_DIR, <<"deactivate">>), TRUE, "none", None) >>

\* managed_file(is_noarch, site_packages, pkg, _path, prefix_placeholder,
\*              file_mode)
managed_file(is_noarch, site_packages, pkg, path, placeholder, mode) ==
    LET target ==
            IF is_noarch
            THEN IF StartsWith(path, <<"site-packages", "/">>)
                 THEN site_packages \o From(path, 2)
                 ELSE IF StartsWith(path, <<"python-scripts", "/">>)
                      THEN BIN_DIR \o From(path, 2)
                      ELSE path
            ELSE path
    IN  File(Join(pkg, path), target, TRUE, mode, placeholder)

\* [f(x) for x in q]
RECURSIVE MapFiles(_, _, _, _)
MapFiles(q, is_noarch, site_packages, pkg) ==
    IF q = <<>> THEN <<>>
    ELSE <<managed_file(is_noarch, site_packages, pkg, Head(q).path,
                        Head(q).prefix_placeholder, Head(q).file_mode)>>
         \o MapFiles(Tail(q), is_noarch, site_packages, pkg)

\* [File(os.path.join(prefix, f), f, file_mode=...) for f in q], the mode
\* 'unknown' for all (uncached) or for those under bin only (noarch extras)
RECURSIVE EnvFiles(_, _, _)
EnvFiles(q, pfx, all_unknown) ==
    IF q = <<>> THEN <<>>
    ELSE <<File(Join(pfx, Head(q)), Head(q), TRUE,
                IF all_unknown \/ StartsWith(Head(q), BIN_DIR)
                THEN "unknown" ELSE "none",
                None)>>
         \o EnvFiles(Tail(q), pfx, all_unknown)

TargetSet(q) == { q[i].target : i \in 1..Len(q) }

\* load_managed_package(info, prefix, site_packages); info.paths is what
\* info/paths.json, or info/files with info/has_prefix, lists
load_managed_package(info, pfx, site_packages) ==
    LET pkg == info.source
        is_noarch == info.noarch = "python"
        listed == MapFiles(info.paths, is_noarch, site_packages, pkg)
        seen == TargetSet(listed)
        extra == SelectSeq(info.files, LAMBDA fil : fil \notin seen)
    IN  IF info.noarch = "python"
        THEN listed \o EnvFiles(extra, pfx, FALSE)
        ELSE listed

\* the top-level names collect_unmanaged does not walk
Ignore ==
    {"pkgs", "envs", "conda-bld", "conda-meta", ".conda_lock", "users",
     "LICENSE.txt", "info", "conda-recipes", ".index", ".unionfs", ".nonadmin",
     "python.app", "Launcher.app"}

\* compat.find_py_source: the .py of a .pyc or .pyo
find_py_source(p) ==
    IF p[Len(p)] \in {".pyc", ".pyo"}
    THEN SubSeq(p, 1, Len(p) - 1) \o <<".py">>
    ELSE p

\* the set collect_unmanaged(prefix, managed) returns as a list; tree is the
\* set of paths the walk of the prefix meets
collect_unmanaged(tree, managed) ==
    LET remove == { Join(<<"bin">>, <<f>>) : f \in {"conda", "activate", "deactivate"} }
        res == { p \in tree : p[1] \notin Ignore }
        claimed == TargetSet(managed)
    IN  { p \in (res \ claimed) \ remove :
            ~ \/ p[Len(p)] = "~"
              \/ p[Len(p)] = ".DS_Store"
              \/ find_py_source(p) \in claimed }

\* the lists that hold each element of S once: the orders a set iterates in
Orders(S) ==
    { q \in [1..Cardinality(S) -> S] : \A x \in S : \E i \in DOMAIN q : q[i] = x }

RECURSIVE UnmanagedFiles(_, _)
UnmanagedFiles(q, pfx) ==
    IF q = <<>> THEN <<>>
    ELSE <<File(Join(pfx, Head(q)), Head(q), FALSE, "unknown", None)>>
         \o UnmanagedFiles(Tail(q), pfx)

-----------------------------------------------------------------------------
(* The environments of SpecLoad.                                           *)

Entry(path, prefix_placeholder, file_mode) ==
    [path |-> path, prefix_placeholder |-> prefix_placeholder,
     file_mode |-> file_mode]

\* what a package lists: its name and its paths
PathLists ==
    { [name |-> "m", paths |-> <<Entry(<<"lib", "/", "m", ".py">>, None, "none")>>],
      [name |-> "conda", paths |-> <<Entry(<<"bin", "/", "activate">>, None, "none")>>],
      [name |-> "n", paths |->
          <<Entry(<<"site-packages", "/", "n", ".py">>, None, "none"),
            Entry(<<"python-scripts", "/", "tool">>, None, "none")>>],
      [name |-> "x", paths |->
          <<Entry(<<"lib", "/", "libx.so">>, Bld, "binary")>>],
      [name |-> "m2", paths |->
          <<Entry(<<"lib", "/", "m", ".py">>, None, "none"),
            Entry(<<"bin", "/", "tool">>, Bld, "text")>>] }

\* the paths a package installed, info['files']: the targets of its paths
\* and, for a noarch python package, the files written at install time
Installed(l, noarch, extras) ==
    LET listed == MapFiles(l.paths, noarch = "python", SitePackages, <<"pkgs">>)
    IN  [i \in 1..Len(listed) |-> listed[i].target] \o extras

Packages ==
    { [name |-> l.name, source |-> <<"pkgs", "/", l.name>>, cached |-> c,
       noarch |-> "None", paths |-> l.paths,
       files |-> Installed(l, "None", <<>>)] :
        l \in PathLists, c \in BOOLEAN }
    \cup
    { [name |-> l.name, source |-> <<"pkgs", "/", l.name>>, cached |-> c,
       noarch |-> "python", paths |-> l.paths,
       files |-> Installed(l, "python", x)] :
        l \in PathLists, c \in BOOLEAN,
        x \in { <<>>, << <<"bin", "/", "n-cli">> >> } }

\* what the walk of the prefix can meet
Disks ==
    { {},
      { <<"bin", "/", "activate">>, <<"bin", "/", "tool">>, <<"extra.txt">> },
      { <<"lib", "/", "m", ".pyc">>, <<"lib", "/", "m", ".py">>,
        <<"conda-meta", "/", "history">> },
      { <<"notes", "~">>, <<"bin", "/", "n-cli">> } }

InitLoad ==
    /\ pc = "conda_meta"
    /\ prefix = PackPrefix
    /\ files = <<>>
    /\ idx = 0
    /\ meta \in { q \in SeqsUpTo(Packages, MaxPkgs) :
                    \A i, j \in 1..Len(q) : q[i].name = q[j].name => i = j }
    /\ disk \in Disks
    /\ kwargs \in [unmanaged : BOOLEAN,
                   on_missing_cache : {"warn", "raise", "ignore"}]
    /\ output = Idle /\ record = Idle /\ fs = Idle /\ existed = Idle
    /\ arc = <<>> /\ prefix_list = <<>> /\ manifest_written = <<>>
    /\ pthIdle /\ siteIdle

\* lines 539-555: the records of the next package of conda-meta
LoadPackage ==
    /\ pc = "conda_meta"
    /\ idx < Len(meta)
    /\ LET info == meta[idx + 1]
           new_files == IF ~info.cached
                        THEN EnvFiles(info.files, prefix, TRUE)
                        ELSE load_managed_package(info, prefix, SitePackages)
       IN  files' = files \o new_files
    /\ idx' = idx + 1
    /\ UNCHANGED <<pythons, site_result, pc, prefix, output, record, fs, existed, arc, prefix_list,
                   manifest_written, meta, disk, kwargs, pth, editable>>

\* lines 557-558: files.extend(collect_unmanaged(prefix, files))
CollectUnmanaged ==
    /\ pc = "conda_meta"
    /\ idx = Len(meta)
    /\ \E q \in (IF kwargs.unmanaged
                 THEN Orders(collect_unmanaged(disk, files))
                 ELSE { <<>> }) :
           files' = files \o UnmanagedFiles(q, prefix)
    /\ pc' = "scripts"
    /\ UNCHANGED <<pythons, site_result, prefix, output, record, fs, existed, idx, arc, prefix_list,
                   manifest_written, meta, disk, kwargs, pth, editable>>

\* line 561: files.extend(File(*s) for s in _scripts)
AddScripts ==
    /\ pc = "scripts"
    /\ files' = files \o Scripts
    /\ pc' = "report"
    /\ UNCHANGED <<pythons, site_result, prefix, output, record, fs, existed, idx, arc, prefix_list,
                   manifest_written, meta, disk, kwargs, pth, editable>>

\* lines 563-570: warn or raise for uncached packages, return files
ReportUncached ==
    /\ pc = "report"
    /\ pc' = IF /\ \E i \in 1..Len(meta) : ~meta[i].cached
                /\ kwargs.on_missing_cache = "raise"
             THEN "load_raised"
             ELSE "returned"
    /\ UNCHANGED <<pythons, site_result, prefix, files, output, record, fs, existed, idx, arc,
                   prefix_list, manifest_written, meta, disk, kwargs, pth,
                   editable>>

NextLoad ==
    \/ LoadPackage
    \/ CollectUnmanaged
    \/ AddScripts
    \/ ReportUncached

SpecLoad == InitLoad /\ [][NextLoad]_vars

\* C7 as stated: no two records of the list load_environment returns share
\* a target.
C7_AsStated ==
    pc = "returned" =>
        \A i, j \in 1..Len(files) : files[i].target = files[j].target => i = j

-----------------------------------------------------------------------------
(* SpecPth: one call of check_no_editable_packages(prefix, site_packages). *)
(* pth holds the lines of the *.pth files of site-packages, in the order   *)
(* they are read.                                                          *)

\* str.rstrip()
RECURSIVE rstrip(_)
rstrip(l) ==
    IF l # <<>> /\ l[Len(l)] \in Whitespace
    THEN rstrip(SubSeq(l, 1, Len(l) - 1))
    ELSE l

\* os.path.join(a, b)
PathJoin(a, b) == IF b # <<>> /\ b[1] = "/" THEN b ELSE Join(a, b)

\* os.path.normpath of an absolute path: the components between the
\* separators, without the empty ones and ".", each ".." taking one back
Push(stack, comp) ==
    IF comp = <<>> \/ comp = <<".">> THEN stack
    ELSE IF comp = <<"..">>
         THEN IF stack = <<>> THEN stack ELSE SubSeq(stack, 1, Len(stack) - 1)
         ELSE Append(stack, comp)

RECURSIVE Components(_, _, _, _)
Components(path, i, cur, stack) ==
    IF i > Len(path) THEN Push(stack, cur)
    ELSE IF path[i] = "/"
         THEN Components(path, i + 1, <<>>, Push(stack, cur))
         ELSE Components(path, i + 1, Append(cur, path[i]), stack)

RECURSIVE JoinAll(_)
JoinAll(stack) ==
    IF stack = <<>> THEN <<>>
    ELSE <<"/">> \o Head(stack) \o JoinAll(Tail(stack))

normpath(path) ==
    LET c == Components(path, 1, <<>>, <<>>)
    IN  IF c = <<>> THEN <<"/">> ELSE JoinAll(c)

\* os.path.dirname(pth_fil)
Dirname(pfx) == Join(pfx, SitePackages)

\* lines 351-357: the stripped line if the line counts as editable, else None
EditableLine(pfx, line) ==
    IF StartsWith(line, <<"#">>) THEN None
    ELSE LET l == rstrip(line)
         IN  IF l # <<>>
             THEN LET location == normpath(PathJoin(Dirname(pfx), l))
                  IN  IF ~StartsWith(location, pfx) THEN l ELSE None
             ELSE None

\* the lines a .pth file can hold
PthLines(pfx) ==
    { <<"#", SP, "comment", NL>>,
      <<NL>>,
      <<"pkg", NL>>,
      <<"/", "home", "/", "alice", "/", "dev", "/", "pkg", NL>>,
      pfx \o <<"-dev", "/", "pkg", NL>>,
      pfx \o <<"/", "lib", "/", "pkg", NL>>,
      <<"..", "/", "..", "/", "..", "/", "..", "/", "other", NL>>,
      <<"..", "/", "x", SP, NL>>,
      <<"..", "/", "..", "/", "..", "/", "..", "/", "env", "-dev", NL>> }

InitPth ==
    /\ pc = "pth"
    /\ prefix = PackPrefix
    /\ pth \in SeqsUpTo(PthLines(prefix), MaxLines)
    /\ editable = {}
    /\ idx = 0
    /\ files = <<>> /\ arc = <<>> /\ prefix_list = <<>>
    /\ output = Idle /\ record = Idle /\ fs = Idle /\ existed = Idle
    /\ manifest_written = <<>>
    /\ loadIdle /\ siteIdle

\* lines 350-357: the next line of the .pth files
CheckLine ==
    /\ pc = "pth"
    /\ idx < Len(pth)
    /\ LET l == EditableLine(prefix, pth[idx + 1])
       IN  editable' = IF l # None THEN editable \cup {l} ELSE editable
    /\ idx' = idx + 1
    /\ UNCHANGED <<pythons, site_result, pc, prefix, files, output, record, fs, existed, arc,
                   prefix_list, manifest_written, meta, disk, kwargs, pth>>

\* lines 358-363: raise CondaPackException if a line was recorded
FinishPth ==
    /\ pc = "pth"
    /\ idx = Len(pth)
    /\ pc' = IF editable # {} THEN "pth_raised" ELSE "pth_ok"
    /\ UNCHANGED <<pythons, site_result, prefix, files, output, record, fs, existed, idx, arc,
                   prefix_list, manifest_written, meta, disk, kwargs, pth,
                   editable>>

NextPth == CheckLine \/ FinishPth

SpecPth == InitPth /\ [][NextPth]_vars

\* the path denotes the prefix directory or something below it
InsidePrefix(location, pfx) ==
    location = pfx \/ StartsWith(location, pfx \o <<"/">>)

\* the stripped non-comment, non-blank lines that resolve outside the prefix
Offending ==
    { rstrip(pth[i]) : i \in
        { i \in 1..Len(pth) :
            /\ ~StartsWith(pth[i], <<"#">>)
            /\ rstrip(pth[i]) # <<>>
            /\ ~InsidePrefix(normpath(PathJoin(Dirname(prefix), rstrip(pth[i]))),
                             prefix) } }

\* C10 as stated: check_no_editable_packages raises, listing every offending
\* line, exactly when some non-comment, non-blank line resolves to a path
\* outside the prefix directory, a sibling such as <prefix>-dev/pkg included.
C10_AsStated ==
    pc \in {"pth_ok", "pth_raised"} =>
        /\ pc = "pth_raised" <=> Offending # {}
        /\ pc = "pth_raised" => editable = Offending

-----------------------------------------------------------------------------
(* SpecSite: find_site_packages(prefix).  A version is the string the      *)
(* metadata record holds, one character per element.                       *)

MaxMajor == 3     \* largest major version number
MaxMinor == 11    \* largest minor version number
MaxPatch == 1     \* largest micro version number
MaxMeta  == 2     \* files conda-meta/python-*.json

\* compat.on_win: the POSIX layout, as BIN_DIR is 'bin'
on_win == FALSE

Digits == <<"0", "1", "2", "3", "4", "5", "6", "7", "8", "9">>

\* the decimal numeral of n
RECURSIVE Numeral(_)
Numeral(n) ==
    IF n < 10 THEN <<Digits[n + 1]>>
    ELSE Numeral(n \div 10) \o <<Digits[(n % 10) + 1]>>

\* the version string 'X.Y.Z'
Version(x, y, z) ==
    Numeral(x) \o <<".">> \o Numeral(y) \o <<".">> \o Numeral(z)

\* line 339: python_version[:3]
major_minor(python_version) ==
    SubSeq(python_version, 1, IF Len(python_version) < 3 THEN Len(python_version) ELSE 3)

\* line 341: 'lib/python%s/site-packages' % major_minor
SitePath(mm) == <<"lib", "/", "python">> \o mm \o <<"/", "site-packages">>

\* lines 335-341: the value returned for the one record named python
SiteOf(info) ==
    IF on_win THEN <<"Lib", "/", "site-packages">>
    ELSE SitePath(major_minor(info.version))

\* the records the files conda-meta/python-*.json can hold
PythonMetas ==
    { [name |-> "python", version |-> Version(x, y, z)] :
        x \in 0..MaxMajor, y \in 0..MaxMinor, z \in 0..MaxPatch }
    \cup { [name |-> "python-dateutil", version |-> Version(2, 8, 2)] }

InitSite ==
    /\ pc = "site"
    /\ prefix = PackPrefix
    /\ meta \in SeqsUpTo(PythonMetas, MaxMeta)
    /\ idx = 0
    /\ pythons = <<>>
    /\ site_result = None
    /\ files = <<>> /\ arc = <<>> /\ prefix_list = <<>>
    /\ output = Idle /\ record = Idle /\ fs = Idle /\ existed = Idle
    /\ manifest_written = <<>>
    /\ disk = Idle /\ kwargs = Idle
    /\ pthIdle

\* lines 320-324: the next file the glob matched
ReadMeta ==
    /\ pc = "site"
    /\ idx < Len(meta)
    /\ pythons' = IF meta[idx + 1].name = "python"
                  THEN Append(pythons, meta[idx + 1])
                  ELSE pythons
    /\ idx' = idx + 1
    /\ UNCHANGED <<pc, prefix, files, output, record, fs, existed, arc,
                   prefix_list, manifest_written, meta, disk, kwargs, pth,
                   editable, site_result>>

\* lines 326-341: raise unless one record was collected, else return
ReturnSitePackages ==
    /\ pc = "site"
    /\ idx = Len(meta)
    /\ IF Len(pythons) > 1 \/ pythons = <<>>
       THEN pc' = "site_raised" /\ UNCHANGED site_result
       ELSE pc' = "site_returned" /\ site_result' = SiteOf(pythons[1])
    /\ UNCHANGED <<prefix, files, output, record, fs, existed, idx, arc,
                   prefix_list, manifest_written, meta, disk, kwargs, pth,
                   editable, pythons>>

NextSite == ReadMeta \/ ReturnSitePackages

SpecSite == InitSite /\ [][NextSite]_vars

\* the characters before the n-th "." of s, all of s if it has fewer
RECURSIVE UpToDot(_, _, _)
UpToDot(s, i, n) ==
    IF i > Len(s) THEN s
    ELSE IF s[i] = "."
         THEN IF n = 1 THEN SubSeq(s, 1, i - 1) ELSE UpToDot(s, i + 1, n - 1)
         ELSE UpToDot(s, i + 1, n)

\* the first two dot-separated components of a version, 'X.Y'
FirstTwo(version) == UpToDot(version, 1, 2)

\* conda-meta holds exactly one record named python
OnePython == Cardinality({ i \in 1..Len(meta) : meta[i].name = "python" }) = 1

\* C11 as stated: when conda-meta holds exactly one record named python, of
\* version 'X.Y.Z', find_site_packages returns 'lib/pythonX.Y/site-packages',
\* X.Y being the first two dot-separated components, multi-digit ones included.
C11_AsStated ==
    (pc \in {"site_returned", "site_raised"} /\ OnePython) =>
        /\ pc = "site_returned"
        /\ site_result = SitePath(FirstTwo(pythons[1].version))

-----------------------------------------------------------------------------
(* The manifest rows of the records addfile writes with add_bytes          *)
(* (SpecAdd).                                                              *)

\* the placeholder a record's archived bytes can hold: the fixed token for
\* an unknown record, the declared prefix_placeholder for a text record
Token(f) ==
    IF f.file_mode = "unknown" THEN PREFIX_PLACEHOLDER ELSE f.prefix_placeholder

\* the manifest holds a text row for the target
HasTextRow(target) ==
    \E i \in 1..Len(prefix_list) :
        prefix_list[i].target = target /\ prefix_list[i].mode = "text"

\* addfile wrote the record with add_bytes
WroteBytes == pc = "added" /\ Len(arc) = 1 /\ arc[1].op = "add_bytes"

\* C12 as stated: every record addfile writes with add_bytes whose archived
\* bytes still contain the placeholder has a text row in the manifest, a file
\* whose shebang executable lies outside the prefix but whose body mentions
\* the prefix once included.
C12_AsStated ==
    (WroteBytes /\ Contains(arc[1].data, Token(files[1]))) =>
        HasTextRow(files[1].target)

=============================================================================
